---- MODULE Spec2Model ----
(***************************************************************************)
(* Model of the continuous-matching coordinator (routers/                  *)
(* continuous_matching.py), the legacy match flow (routers/matching.py)    *)
(* and the video-call / signalling relay (routers/video.py).               *)
(*                                                                         *)
(* Time is counted in units of five minutes.  Scores are the code's        *)
(* floating point scores multiplied by ScoreScale, so that every term is   *)
(* an integer.  UUIDs are natural numbers handed out by next_uuid; row ids *)
(* are the positions in the table sequences (autoincrement keys).          *)
(***************************************************************************)
EXTENDS Integers, Sequences, FiniteSets, TLC

VARIABLES
    now,               \* the clock
    msessions,         \* table matching_sessions
    calls,             \* table instant_call_sessions
    videos,            \* table video_sessions
    matches,           \* table matches
    next_uuid,         \* uuid.uuid4(): the next fresh session id
    webrtc_signals,    \* video.py: session_id -> list of signals
    posted,            \* history: every signal ever stored, and who got it
    connected_users,   \* video.py: session_id -> set of user ids
    signal_request_counts, \* video.py: user_id -> count, last_reset
    timers,            \* scheduled auto_end_session background tasks
    inflight,          \* requests between two of their commits
    resp               \* the response to the last request

vars == <<now, msessions, calls, videos, matches, next_uuid, webrtc_signals, posted,
          connected_users, signal_request_counts, timers, inflight, resp>>

(***************************************************************************)
(* Bounds of the model.                                                    *)
(***************************************************************************)
MaxTime == 3
MaxMS == 2
MaxRestartMS == 3

MaxOverlapMS == 4
MaxCalls == 2
MaxMatches == 1
MaxCount == 1
MaxInboundCount == 2

MaxRepeatMatches == 2

MaxRepeatCount == 2
MaxInflight == 2
MaxVideos == 2
MaxPosted == 2
MaxRequests == 2

(***************************************************************************)
(* Program constants, in units of five minutes.                            *)
(***************************************************************************)
SessionTimeout == 1
RecentCallWindow == 2
StaleCallCutoff == 2
IncomingWindow == 1
VideoActiveCutoff == 6

(***************************************************************************)
(* Users and their profiles (owned by the identity / profile subsystem,    *)
(* read only here).                                                        *)
(***************************************************************************)
Users == {1, 2, 3}

Profile(u) ==
    CASE u = 1 -> [age |-> 25, min_age |-> 20, max_age |-> 35,
                   traits |-> <<9, 9, 9, 9, 9>>, looking_for |-> "serious",
                   interests |-> {"music", "hiking"}]
      [] u = 2 -> [age |-> 28, min_age |-> 18, max_age |-> 100,
                   traits |-> <<8, 9, 9, 8, 9>>, looking_for |-> "casual",
                   interests |-> {"music"}]
      [] OTHER -> [age |-> 40, min_age |-> 18, max_age |-> 100,
                   traits |-> <<1, 1, 1, 1, 1>>, looking_for |-> "friends",
                   interests |-> {"chess"}]

\* users.last_active: set by the server default when the row is created and
\* written by none of the modelled routes.
UserLastActive(u) == 0

\* users.is_active
UserIsActive(u) == TRUE

\* StartMatchingRequest with its default filters.
DefaultRequest == [min_age |-> 18, max_age |-> 100, preferred_interests |-> {}]

\* StartMatchingRequest: the filters a start request of user u may carry
\* (the defaults; user 1 may also ask for ages 20 to 35 and for "music").
StartRequests(u) ==
    { DefaultRequest }
    \cup
    IF u = 1
    THEN { [min_age |-> 20, max_age |-> 35, preferred_interests |-> {"music"}] }
    ELSE {}

(***************************************************************************)
(* calculate_compatibility_score, times ScoreScale.                        *)
(***************************************************************************)
ScoreScale == 6000

Abs(x) == IF x < 0 THEN -x ELSE x

Max(a, b) == IF a >= b THEN a ELSE b

Min(a, b) == IF a <= b THEN a ELSE b

\* sum over the five traits of max(0, 10 - diff); the code divides each by 10,
\* the sum by 5 and applies the weight 0.4: 48 scaled points per unit.
PersonalityPoints(p, q) ==
    LET d(i) == Max(0, 10 - Abs(p.traits[i] - q.traits[i]))
    IN  d(1) + d(2) + d(3) + d(4) + d(5)

InterestScore(p, q) ==
    IF p.interests # {} /\ q.interests # {}
    THEN (1800 * Cardinality(p.interests \cap q.interests))
             \div Cardinality(p.interests \cup q.interests)
    ELSE 0

AgeScore(p, q) ==
    IF /\ p.min_age <= q.age /\ q.age <= p.max_age
       /\ q.min_age <= p.age /\ p.age <= q.max_age
    THEN 1200 ELSE 0

LookingForScore(p, q) ==
    IF p.looking_for = q.looking_for THEN 600
    ELSE IF /\ p.looking_for \in {"serious", "casual"}
            /\ q.looking_for \in {"serious", "casual"} THEN 300
    ELSE 0

calculate_compatibility_scoreMutant(p, q) ==
    60 * PersonalityPoints(p, q) + InterestScore(p, q)
        + AgeScore(p, q) + LookingForScore(p, q)

calculate_compatibility_score(p, q) ==
    Min(ScoreScale,
        Max(0, 48 * PersonalityPoints(p, q) + InterestScore(p, q)
               + AgeScore(p, q) + LookingForScore(p, q)))

(***************************************************************************)
(* Rows and responses.                                                     *)
(***************************************************************************)
\* The response to a request.  code is the HTTP status; tok the matching
\* session token, id the match or call-session id, partner the offered
\* user, sid the video session id of the request or of the answer (0: none);
\* kind tells which table id names ("match", "call" or "none").
\* signals lists the signals a drain returned (their positions in posted).
Response(op, u, code, tok, kind, id, partner, sid) ==
    [op |-> op, user |-> u, code |-> code, tok |-> tok, kind |-> kind,
     id |-> id, partner |-> partner, sid |-> sid, signals |-> <<>>]

NoResponse == Response("none", 0, 0, 0, "none", 0, 0, 0)

\* An error response: the operation and the HTTP status.
Failure(op, code) == Response(op, 0, code, 0, "none", 0, 0, 0)

\* An error response of the relay, with the caller and the session named.
Denied(op, u, code, sid) == Response(op, u, code, 0, "none", 0, 0, sid)

SeqMax(S) == CHOOSE x \in S : \A y \in S : y <= x

SeqMin(S) == CHOOSE x \in S : \A y \in S : x <= y

InSeq(x, s) == \E i \in DOMAIN s : s[i] = x

\* Query.first() of a set of row ids: the row with the lowest key.
First(S) == IF S = {} THEN 0 ELSE SeqMin(S)

(***************************************************************************)
(* matching_sessions                                                       *)
(***************************************************************************)
\* A row of matching_sessions.  skipped and skipped_by are history fields:
\* the users the owner answered "skip" about with this session's token, and
\* the users who answered "skip" about the owner while this session was the
\* owner's active session.
NewMatchingSession(u, req) ==
    [user |-> u, status |-> "active", last_active |-> now, excl |-> <<>>,
     min_age |-> req.min_age, max_age |-> req.max_age,
     pref |-> req.preferred_interests,
     matches_made |-> 0, successful_matches |-> 0,
     ended |-> FALSE, skipped |-> {}, skipped_by |-> {}]

\* onupdate=func.now(): an UPDATE of a row stamps last_active.
Touched(row) == [row EXCEPT !.last_active = now]

ActiveSessions(ms, u) ==
    {i \in DOMAIN ms : ms[i].user = u /\ ms[i].status = "active"}

FreshSessions(ms, u, cutoff) ==
    {i \in ActiveSessions(ms, u) : ms[i].last_active >= cutoff}

\* start_continuous_matching, first commit: every active session of the
\* user is completed (the stale and the non-stale branch do the same).
CompleteActiveMutant(ms, u) ==
    [i \in DOMAIN ms |->
        IF i \in ActiveSessions(ms, u)
        THEN Touched([ms[i] EXCEPT !.status = "completed", !.ended = TRUE])
        ELSE IF ms[i].user = u
        THEN Touched([ms[i] EXCEPT !.status = "active"])
        ELSE ms[i]]

CompleteActive(ms, u) ==
    [i \in DOMAIN ms |->
        IF i \in ActiveSessions(ms, u)
        THEN Touched([ms[i] EXCEPT !.status = "completed", !.ended = TRUE])
        ELSE ms[i]]

HasProfile(u) == u \in Users

\* start_continuous_matching, run without interruption, while the table
\* holds fewer than max rows.
StartWithin(max, u, req) ==
    /\ HasProfile(u)
    /\ Len(msessions) < max
    /\ msessions' = Append(CompleteActive(msessions, u),
                           NewMatchingSession(u, req))
    /\ resp' = Response("start", u, 200, Len(msessions) + 1, "none", 0, 0, 0)
    /\ UNCHANGED <<now, calls, videos, matches, next_uuid, webrtc_signals, posted,
                   connected_users, signal_request_counts, timers, inflight>>

Start(u, req) == StartWithin(MaxMS, u, req)

\* start_continuous_matching as its two transactions, for requests that
\* overlap: the first commit completes the caller's active sessions ...
StartCleanup(u, req) ==
    /\ HasProfile(u)
    /\ Len(inflight) < MaxInflight
    /\ msessions' = CompleteActive(msessions, u)
    /\ inflight' = Append(inflight, [op |-> "start", user |-> u, req |-> req])
    /\ UNCHANGED <<now, calls, videos, matches, next_uuid, webrtc_signals, posted,
                   connected_users, signal_request_counts, timers, resp>>

Without(s, k) == [i \in 1..(Len(s) - 1) |-> IF i < k THEN s[i] ELSE s[i + 1]]

\* ... and the second commit inserts the new session.
StartInsertWithin(max, k) ==
    /\ k \in DOMAIN inflight
    /\ inflight[k].op = "start"
    /\ Len(msessions) < max
    /\ msessions' = Append(msessions,
                           NewMatchingSession(inflight[k].user, inflight[k].req))
    /\ inflight' = Without(inflight, k)
    /\ resp' = Response("start", inflight[k].user, 200, Len(msessions) + 1,
                        "none", 0, 0, 0)
    /\ UNCHANGED <<now, calls, videos, matches, next_uuid, webrtc_signals, posted,
                   connected_users, signal_request_counts, timers>>

StartInsert(k) == StartInsertWithin(MaxMS, k)

(***************************************************************************)
(* instant_call_sessions and their video sessions                          *)
(***************************************************************************)
Participants(c) == {c.user1, c.user2}

OtherOf(c, u) == IF c.user1 = u THEN c.user2 ELSE c.user1

OpenStatuses == {"waiting", "active"}

\* cleanup_stale_call_sessions
cleanup_stale_call_sessions(cs, ms) ==
    LET stale_cutoff == now - StaleCallCutoff
        stale(i) == /\ cs[i].status \in OpenStatuses
                    /\ cs[i].created_at <= stale_cutoff
        fresh(u) == FreshSessions(ms, u, stale_cutoff) # {}
    IN  [i \in DOMAIN cs |->
            IF stale(i) /\ (~fresh(cs[i].user1) \/ ~fresh(cs[i].user2))
            THEN [cs[i] EXCEPT !.status = "cancelled"]
            ELSE cs[i]]

\* check_bidirectional_exclusion(...)["can_match"]
check_bidirectional_exclusion(ms, user1_id, user2_id) ==
    LET session_timeout == now - SessionTimeout
        s1 == First(FreshSessions(ms, user1_id, session_timeout))
        s2 == First(FreshSessions(ms, user2_id, session_timeout))
    IN  /\ s1 # 0
        /\ s2 # 0
        /\ ~InSeq(user2_id, ms[s1].excl)
        /\ ~InSeq(user1_id, ms[s2].excl)

\* The rows of find_next_active_match's query: users outside the exclusion
\* list and inside the age filter who hold a fresh active session.
PotentialCandidatesMutant(ms, tok) ==
    LET me == ms[tok].user
        session_timeout == now - SessionTimeout
    IN  {c \in Users :
            /\ c # me
            /\ ~InSeq(c, ms[tok].excl)
            /\ HasProfile(c)
            /\ UserIsActive(c)
            /\ FreshSessions(ms, c, session_timeout) # {}}

PotentialCandidates(ms, tok) ==
    LET me == ms[tok].user
        session_timeout == now - SessionTimeout
    IN  {c \in Users :
            /\ c # me
            /\ ~InSeq(c, ms[tok].excl)
            /\ HasProfile(c)
            /\ Profile(c).age >= ms[tok].min_age
            /\ Profile(c).age <= ms[tok].max_age
            /\ UserIsActive(c)
            /\ FreshSessions(ms, c, session_timeout) # {}}

\* select_best_match_from_candidates: the score with the two boosts.
ActivityBoost(c) ==
    IF now - UserLastActive(c) <= 1 THEN 900
    ELSE IF now - UserLastActive(c) <= 2 THEN 600
    ELSE 0

BoostedScore(ms, tok, c) ==
    calculate_compatibility_score(Profile(ms[tok].user), Profile(c))
    + 600 * Cardinality(ms[tok].pref \cap Profile(c).interests)
    + ActivityBoost(c)

MinimumScore == 1200

\* find_next_active_match: the users it may return (the stable sort keeps
\* the query's order, most recently active session first, among equal
\* scores; what is left among equals is the database's choice).
NextActiveMatches(ms, tok) ==
    LET me == ms[tok].user
        valid == {c \in PotentialCandidates(ms, tok) :
                     check_bidirectional_exclusion(ms, me, c)}
        scored == {c \in valid : BoostedScore(ms, tok, c) > MinimumScore}
        best == {c \in scored : \A d \in scored :
                     BoostedScore(ms, tok, d) <= BoostedScore(ms, tok, c)}
        la(c) == SeqMax({ms[i].last_active :
                     i \in FreshSessions(ms, c, now - SessionTimeout)})
    IN  IF HasProfile(me)
        THEN {c \in best : \A d \in best : la(d) <= la(c)}
        ELSE {}

\* create_continuous_call_session: the session it reuses (0: none).
ExistingCallMutant(cs, a, b) ==
    First({i \in DOMAIN cs :
              /\ cs[i].user1 = a /\ cs[i].user2 = b
              /\ cs[i].created_at >= now - RecentCallWindow
              /\ cs[i].status \in OpenStatuses})

ExistingCall(cs, a, b) ==
    First({i \in DOMAIN cs :
              /\ Participants(cs[i]) = {a, b}
              /\ cs[i].created_at >= now - RecentCallWindow
              /\ cs[i].status \in OpenStatuses})

\* A row of instant_call_sessions, created by the poll of a.  continued and
\* created_by are history fields: the participants whose "continue" was
\* answered about this row, and the user whose poll inserted it.
NewCall(a, b, sid) ==
    [user1 |-> Min(a, b), user2 |-> Max(a, b), status |-> "waiting",
     user1_decision |-> "unset", user2_decision |-> "unset",
     created_at |-> now, session_id |-> sid, continued |-> {},
     created_by |-> a]

\* A row of video_sessions (match_id 0: None).  started and ended count the
\* writes of started_at and ended_at; deleted marks a row removed by
\* db.delete.
NewVideo(sid, match_id) ==
    [session_id |-> sid, match_id |-> match_id, status |-> "waiting",
     started |-> 0, ended |-> 0, deleted |-> FALSE]

(***************************************************************************)
(* matches                                                                 *)
(***************************************************************************)
NewMatch(a, b, status, sid, completed, decision) ==
    [user_id |-> a, matched_user_id |-> b, status |-> status,
     video_session_id |-> sid, call_completed |-> completed,
     user_decision |-> decision, matched_user_decision |-> decision,
     created_at |-> now]

MatchOther(m, u) == IF m.user_id = u THEN m.matched_user_id ELSE m.user_id

\* get_next_match: the pending recent match it returns first (order by
\* created_at desc, first).
IncomingMatches(u) ==
    LET found == {i \in DOMAIN matches :
                     /\ u \in {matches[i].user_id, matches[i].matched_user_id}
                     /\ matches[i].status = "pending"
                     /\ matches[i].created_at >= now - IncomingWindow
                     /\ matches[i].video_session_id # 0}
    IN  {i \in found : \A j \in found :
            matches[j].created_at <= matches[i].created_at}

(***************************************************************************)
(* get_next_match                                                          *)
(***************************************************************************)
Tokens == 1..MaxMS

\* The tokens of a pool of three users.
RestartTokens == 1..MaxRestartMS

OverlapTokens == 1..MaxOverlapMS

\* The session a poll (or an end) needs: this token, this user, active.
ValidTokenMutant(u, tok, needActive) ==
    /\ tok \in DOMAIN msessions
    /\ msessions[tok].user = u

ValidToken(u, tok, needActive) ==
    /\ tok \in DOMAIN msessions
    /\ msessions[tok].user = u
    /\ needActive => msessions[tok].status = "active"

\* get_next_match with a token that names no active session of the caller.
PollNotFound(u, tok) ==
    /\ ~ValidToken(u, tok, TRUE)
    /\ resp' = Failure("poll", 404)
    /\ UNCHANGED <<now, msessions, calls, videos, matches, next_uuid,
                   webrtc_signals, posted, connected_users, signal_request_counts,
                   timers, inflight>>

\* get_next_match up to the incoming-match branch: the stale call sessions
\* are cancelled, then the session is touched.
PolledCalls == cleanup_stale_call_sessions(calls, msessions)

PolledSessionsMutant(tok) == msessions

PolledSessions(tok) == [msessions EXCEPT ![tok].last_active = now]

\* get_next_match, the incoming-match branch: a pending recent match of the
\* caller is returned and counted, while the counter is below max.
PollIncomingWithin(max, u, tok) ==
    /\ ValidToken(u, tok, TRUE)
    /\ IncomingMatches(u) # {}
    /\ msessions[tok].matches_made < max
    /\ \E m \in IncomingMatches(u) :
        /\ HasProfile(MatchOther(matches[m], u))
        /\ msessions' = [PolledSessions(tok) EXCEPT
                            ![tok].matches_made = @ + 1]
        /\ resp' = Response("poll", u, 200, tok, "match", m,
                            MatchOther(matches[m], u),
                            matches[m].video_session_id)
    /\ calls' = PolledCalls
    /\ UNCHANGED <<now, videos, matches, next_uuid, webrtc_signals, posted,
                   connected_users, signal_request_counts, timers, inflight>>

PollIncoming(u, tok) == PollIncomingWithin(MaxCount, u, tok)

\* get_next_match, candidate discovery finds nobody.
PollNobody(u, tok) ==
    /\ ValidToken(u, tok, TRUE)
    /\ IncomingMatches(u) = {}
    /\ NextActiveMatches(PolledSessions(tok), tok) = {}
    /\ msessions' = PolledSessions(tok)
    /\ calls' = PolledCalls
    /\ resp' = Response("poll", u, 200, tok, "none", 0, 0, 0)
    /\ UNCHANGED <<now, videos, matches, next_uuid, webrtc_signals, posted,
                   connected_users, signal_request_counts, timers, inflight>>

\* create_continuous_call_session after its existence check found nothing:
\* the call session and its video session are inserted in one commit.
InsertCall(cs, a, b) == Append(cs, NewCall(a, b, next_uuid))

\* get_next_match, candidate discovery finds next_user: the open call
\* session of the pair is reused, or a new one is created.
PollPair(u, tok) ==
    /\ ValidToken(u, tok, TRUE)
    /\ IncomingMatches(u) = {}
    /\ \E c \in NextActiveMatches(PolledSessions(tok), tok) :
        LET ex == ExistingCall(PolledCalls, u, c)
        IN  IF ex # 0
            THEN /\ calls' = PolledCalls
                 /\ resp' = Response("poll", u, 200, tok, "call", ex, c,
                                     PolledCalls[ex].session_id)
                 /\ UNCHANGED <<videos, next_uuid>>
            ELSE /\ Len(calls) < MaxCalls
                 /\ calls' = InsertCall(PolledCalls, u, c)
                 /\ videos' = Append(videos, NewVideo(next_uuid, 0))
                 /\ next_uuid' = next_uuid + 1
                 /\ resp' = Response("poll", u, 200, tok, "call",
                                     Len(calls) + 1, c, next_uuid)
    /\ msessions' = PolledSessions(tok)
    /\ UNCHANGED <<now, matches, webrtc_signals, posted, connected_users,
                   signal_request_counts, timers, inflight>>

(***************************************************************************)
(* end_matching_session                                                    *)
(***************************************************************************)
EndNotFound(u, tok) ==
    /\ ~ValidToken(u, tok, FALSE)
    /\ resp' = Failure("end", 404)
    /\ UNCHANGED <<now, msessions, calls, videos, matches, next_uuid,
                   webrtc_signals, posted, connected_users, signal_request_counts,
                   timers, inflight>>

\* end_matching_session: every waiting or active call session of the caller
\* is cancelled.
EndedCallsMutant(cs, u) == cs

EndedCalls(cs, u) ==
    [i \in DOMAIN cs |->
        IF u \in Participants(cs[i]) /\ cs[i].status \in OpenStatuses
        THEN [cs[i] EXCEPT !.status = "cancelled"]
        ELSE cs[i]]

End(u, tok) ==
    /\ ValidToken(u, tok, FALSE)
    /\ msessions' = [msessions EXCEPT ![tok] =
            Touched([@ EXCEPT !.status = "completed", !.ended = TRUE])]
    /\ calls' = EndedCalls(calls, u)
    /\ resp' = Response("end", u, 200, tok, "none", 0, 0, 0)
    /\ UNCHANGED <<now, videos, matches, next_uuid, webrtc_signals, posted,
                   connected_users, signal_request_counts, timers, inflight>>

(***************************************************************************)
(* The clock                                                               *)
(***************************************************************************)
Tick ==
    /\ now < MaxTime
    /\ now' = now + 1
    /\ resp' = NoResponse
    /\ UNCHANGED <<msessions, calls, videos, matches, next_uuid,
                   webrtc_signals, posted, connected_users, signal_request_counts,
                   timers, inflight>>

(***************************************************************************)
(* handle_continue_decision                                                *)
(***************************************************************************)
Decisions == {"continue", "next", "skip"}

\* The request's match_id is looked up in matches first, then in the
\* caller's instant call sessions.
DecisionKind(u, id) ==
    IF id \in DOMAIN matches THEN "match"
    ELSE IF id \in DOMAIN calls /\ u \in Participants(calls[id]) THEN "call"
    ELSE "none"

DecisionOther(u, id) ==
    IF DecisionKind(u, id) = "match" THEN MatchOther(matches[id], u)
    ELSE OtherOf(calls[id], u)

Ids == 1..Max(MaxCalls, MaxMatches)

DecisionNotFound(u, tok, id) ==
    /\ ~(ValidToken(u, tok, FALSE) /\ DecisionKind(u, id) # "none")
    /\ resp' = Failure("decision", 404)
    /\ UNCHANGED <<now, msessions, calls, videos, matches, next_uuid,
                   webrtc_signals, posted, connected_users, signal_request_counts,
                   timers, inflight>>

\* decision "continue": a match becomes matched, an instant call session is
\* left alone ...
ContinuedMatchesMutant(u, id) ==
    IF DecisionKind(u, id) = "match"
    THEN [matches EXCEPT ![id].status = "matched"]
    ELSE Append(matches, NewMatch(u, OtherOf(calls[id], u), "matched",
                                  calls[id].session_id, TRUE, "like"))

ContinuedMatches(u, id) ==
    IF DecisionKind(u, id) = "match"
    THEN [matches EXCEPT ![id].status = "matched"]
    ELSE matches

\* ... and the session's successful_matches is incremented.
Continue(u, tok, id) ==
    /\ ValidToken(u, tok, FALSE)
    /\ DecisionKind(u, id) # "none"
    /\ msessions[tok].successful_matches < MaxCount
    /\ matches' = ContinuedMatches(u, id)
    /\ msessions' = [msessions EXCEPT ![tok] =
            Touched([@ EXCEPT !.successful_matches = @ + 1])]
    /\ calls' = [i \in DOMAIN calls |->
            IF i = id /\ DecisionKind(u, id) = "call"
            THEN [calls[i] EXCEPT !.continued = @ \cup {u}]
            ELSE calls[i]]
    /\ resp' = Response("continue", u, 200, tok, "none", 0, 0, 0)
    /\ UNCHANGED <<now, videos, next_uuid, webrtc_signals, posted, connected_users,
                   signal_request_counts, timers, inflight>>

\* decisions "next" and "skip": the match is passed or the call session
\* completed.
PassedMatches(u, id) ==
    IF DecisionKind(u, id) = "match"
    THEN [matches EXCEPT ![id].status = "passed"]
    ELSE matches

CompletedCalls(u, id) ==
    IF DecisionKind(u, id) = "call"
    THEN [calls EXCEPT ![id].status = "completed"]
    ELSE calls

\* decision "next": current_match_id, which is never anything but None, is
\* set to None; the session row is not written.
NextDecisionMutant(u, tok, id) ==
    /\ ValidToken(u, tok, FALSE)
    /\ DecisionKind(u, id) # "none"
    /\ matches' = PassedMatches(u, id)
    /\ calls' = CompletedCalls(u, id)
    /\ msessions' = [msessions EXCEPT ![tok] =
            IF InSeq(DecisionOther(u, id), @.excl) THEN @
            ELSE Touched([@ EXCEPT !.excl = Append(@, DecisionOther(u, id))])]
    /\ resp' = Response("next", u, 200, tok, "none", 0, 0, 0)
    /\ UNCHANGED <<now, videos, next_uuid, webrtc_signals, posted,
                   connected_users, signal_request_counts, timers, inflight>>

NextDecision(u, tok, id) ==
    /\ ValidToken(u, tok, FALSE)
    /\ DecisionKind(u, id) # "none"
    /\ matches' = PassedMatches(u, id)
    /\ calls' = CompletedCalls(u, id)
    /\ resp' = Response("next", u, 200, tok, "none", 0, 0, 0)
    /\ UNCHANGED <<now, msessions, videos, next_uuid, webrtc_signals, posted,
                   connected_users, signal_request_counts, timers, inflight>>

\* decision "skip", the exclusion lists: the other user is added to the
\* caller's list, and the caller to the list of the other user's first
\* active session, if there is one.
SkipExclusions(ms, u, tok, other) ==
    LET mine == IF InSeq(other, ms[tok].excl)
                THEN ms
                ELSE [ms EXCEPT ![tok] =
                        Touched([@ EXCEPT !.excl = Append(@, other)])]
        theirs == First(ActiveSessions(mine, other))
        noted == IF theirs # 0
                 THEN [mine EXCEPT ![theirs].skipped_by = @ \cup {u}]
                 ELSE mine
    IN  IF theirs # 0 /\ ~InSeq(u, mine[theirs].excl)
        THEN [noted EXCEPT ![theirs] =
                Touched([@ EXCEPT !.excl = Append(@, u)])]
        ELSE noted

Skip(u, tok, id) ==
    /\ ValidToken(u, tok, FALSE)
    /\ DecisionKind(u, id) # "none"
    /\ matches' = PassedMatches(u, id)
    /\ calls' = CompletedCalls(u, id)
    /\ msessions' = [SkipExclusions(msessions, u, tok, DecisionOther(u, id))
                        EXCEPT ![tok].skipped = @ \cup {DecisionOther(u, id)}]
    /\ resp' = Response("skip", u, 200, tok, "none", 0, 0, 0)
    /\ UNCHANGED <<now, videos, next_uuid, webrtc_signals, posted, connected_users,
                   signal_request_counts, timers, inflight>>

(***************************************************************************)
(* submit_call_decision                                                    *)
(***************************************************************************)
CallDecisions == {"like", "pass"}

CallDecisionRejected(u, c) ==
    /\ ~(c \in DOMAIN calls /\ u \in Participants(calls[c]))
    /\ resp' = Failure("call_decision",
                                 IF c \in DOMAIN calls THEN 403 ELSE 404)
    /\ UNCHANGED <<now, msessions, calls, videos, matches, next_uuid,
                   webrtc_signals, posted, connected_users, signal_request_counts,
                   timers, inflight>>

\* The first commit: the caller's decision is recorded.
Decided(c, u, dec) ==
    IF u = calls[c].user1
    THEN [calls[c] EXCEPT !.user1_decision = dec]
    ELSE [calls[c] EXCEPT !.user2_decision = dec]

BothDecided(row) ==
    row.user1_decision # "unset" /\ row.user2_decision # "unset"

BothLike(row) ==
    row.user1_decision = "like" /\ row.user2_decision = "like"

\* matches.video_session_id is unique: a second match of one call session
\* fails at the commit and the transaction is rolled back.
MatchOfSessionMutant(sid) == {}

MatchOfSession(sid) ==
    {i \in DOMAIN matches : matches[i].video_session_id = sid}

\* The counters of every active session of the two participants.
CountMutualMatch(ms, row) ==
    [i \in DOMAIN ms |->
        IF ms[i].user \in Participants(row) /\ ms[i].status = "active"
        THEN Touched([ms[i] EXCEPT !.successful_matches = @ + 1,
                                   !.matches_made = @ + 1])
        ELSE ms[i]]

\* submit_call_decision by a participant, while the table of matches holds
\* fewer than maxm rows and the counters are below maxc.
CallDecisionWithin(maxm, maxc, u, c, dec) ==
    /\ c \in DOMAIN calls
    /\ u \in Participants(calls[c])
    /\ LET row == Decided(c, u, dec)
       IN  IF ~BothDecided(row)
           THEN /\ calls' = [calls EXCEPT ![c] = row]
                /\ resp' = Response("call_decision", u, 200, 0, "call", c, 0, 0)
                /\ UNCHANGED <<msessions, matches>>
           ELSE IF ~BothLike(row)
           THEN /\ calls' = [calls EXCEPT ![c] =
                                [row EXCEPT !.status = "completed"]]
                /\ resp' = Response("call_decision", u, 200, 0, "call", c, 0, 0)
                /\ UNCHANGED <<msessions, matches>>
           ELSE IF MatchOfSession(row.session_id) # {}
           THEN /\ calls' = [calls EXCEPT ![c] = row]
                /\ resp' = Failure("call_decision", 500)
                /\ UNCHANGED <<msessions, matches>>
           ELSE /\ Len(matches) < maxm
                /\ \A i \in DOMAIN msessions :
                      (msessions[i].user \in Participants(row)
                          /\ msessions[i].status = "active")
                      => /\ msessions[i].successful_matches < maxc
                         /\ msessions[i].matches_made < maxc
                /\ matches' = Append(matches,
                        NewMatch(row.user1, row.user2, "matched",
                                 row.session_id, TRUE, "like"))
                /\ msessions' = CountMutualMatch(msessions, row)
                /\ calls' = [calls EXCEPT ![c] =
                                [row EXCEPT !.status = "completed"]]
                /\ resp' = Response("call_decision", u, 200, 0, "match",
                                    Len(matches) + 1, 0, 0)
    /\ UNCHANGED <<now, videos, next_uuid, webrtc_signals, posted, connected_users,
                   signal_request_counts, timers, inflight>>

CallDecision(u, c, dec) == CallDecisionWithin(MaxMatches, MaxCount, u, c, dec)

(***************************************************************************)
(* The legacy flow of routers/matching.py: find_matches                    *)
(***************************************************************************)
LegacyBoost(c) ==
    IF now - UserLastActive(c) <= 2 THEN 1200
    ELSE IF now - UserLastActive(c) <= 12 THEN 600
    ELSE IF now - UserLastActive(c) <= 288 THEN 300
    ELSE 0

LegacyMinimumScore == 1500

LegacyScore(u, c) ==
    calculate_compatibility_score(Profile(u), Profile(c)) + LegacyBoost(c)

\* find_potential_matches: users never matched with u, inside u's own age
\* window, active, scoring above the threshold.
PotentialMatches(u) ==
    LET existing == {MatchOther(matches[i], u) :
                        i \in {j \in DOMAIN matches :
                                 u \in {matches[j].user_id,
                                        matches[j].matched_user_id}}}
    IN  {c \in Users \ {u} :
            /\ c \notin existing
            /\ HasProfile(c)
            /\ Profile(c).age >= Profile(u).min_age
            /\ Profile(c).age <= Profile(u).max_age
            /\ UserIsActive(c)
            /\ LegacyScore(u, c) > LegacyMinimumScore}

\* The potential matches, best score first.
RECURSIVE Ranked(_, _)
Ranked(u, S) ==
    IF S = {} THEN <<>>
    ELSE LET best == CHOOSE c \in S :
                        \A d \in S : LegacyScore(u, d) <= LegacyScore(u, c)
         IN  <<best>> \o Ranked(u, S \ {best})

\* find_matches: one pending match, with a video session id of its own, per
\* potential match.
FindMatches(u) ==
    /\ HasProfile(u)
    /\ LET found == Ranked(u, PotentialMatches(u))
       IN  /\ Len(matches) + Len(found) <= MaxMatches
           /\ matches' = matches \o
                [k \in 1..Len(found) |->
                    NewMatch(u, found[k], "pending", next_uuid + k - 1,
                             FALSE, "unset")]
           /\ next_uuid' = next_uuid + Len(found)
    /\ resp' = Response("find", u, 200, 0, "none", 0, 0, 0)
    /\ UNCHANGED <<now, msessions, calls, videos, webrtc_signals, posted,
                   connected_users, signal_request_counts, timers, inflight>>

(***************************************************************************)
(* routers/video.py: video sessions                                        *)
(***************************************************************************)
\* The video session, the call session of a session id (0: none).
VideoOf(sid) ==
    First({i \in DOMAIN videos :
              videos[i].session_id = sid /\ ~videos[i].deleted})

CallOf(sid) == First({i \in DOMAIN calls : calls[i].session_id = sid})

MatchUsers(m) == {matches[m].user_id, matches[m].matched_user_id}

\* The authorization every video route starts with: the status it raises
\* (200: none).
VideoAuthMutant(u, sid) ==
    IF VideoOf(sid) = 0 THEN 404 ELSE 200

VideoAuth(u, sid) ==
    IF VideoOf(sid) = 0 THEN 404
    ELSE IF videos[VideoOf(sid)].match_id # 0
    THEN IF /\ videos[VideoOf(sid)].match_id \in DOMAIN matches
            /\ u \in MatchUsers(videos[VideoOf(sid)].match_id)
         THEN 200 ELSE 403
    ELSE IF CallOf(sid) = 0 THEN 404
    ELSE IF u \notin Participants(calls[CallOf(sid)]) THEN 403
    ELSE 200

\* join_video_call: expected_users
ExpectedUsers(sid) ==
    IF videos[VideoOf(sid)].match_id # 0
    THEN MatchUsers(videos[VideoOf(sid)].match_id)
    ELSE Participants(calls[CallOf(sid)])

\* The session ids a request may name: those handed out so far, and one
\* that names nothing.
SessionIds == 1..next_uuid

AllSessionIds == 1..(MaxCalls + MaxMatches + MaxVideos)

Connected(cu, sid) == IF sid \in DOMAIN cu THEN cu[sid] ELSE {}

\* d[k] = v, whether or not k is there already.
Put(d, k, v) == [x \in DOMAIN d \cup {k} |-> IF x = k THEN v ELSE d[x]]

\* del d[k]
Remove(d, k) == [x \in DOMAIN d \ {k} |-> d[x]]

\* join_video_call for an instant call: the first active matching session of
\* each participant is stamped.
JoinTouched(ms, sid) ==
    IF videos[VideoOf(sid)].match_id # 0 THEN ms
    ELSE LET c == calls[CallOf(sid)]
             s1 == First(ActiveSessions(ms, c.user1))
             s2 == First(ActiveSessions(ms, c.user2))
         IN  [i \in DOMAIN ms |->
                IF i \in {s1, s2} THEN Touched(ms[i]) ELSE ms[i]]

\* join_video_call: the session starts when every expected user is
\* connected and it is still waiting.
BothJoinedMutant(sid, cu) ==
    videos[VideoOf(sid)].status = "waiting"

BothJoined(sid, cu) ==
    /\ ExpectedUsers(sid) \subseteq Connected(cu, sid)
    /\ videos[VideoOf(sid)].status = "waiting"

JoinRejected(u, sid) ==
    /\ VideoAuth(u, sid) # 200
    /\ resp' = Failure("join", VideoAuth(u, sid))
    /\ UNCHANGED <<now, msessions, calls, videos, matches, next_uuid,
                   webrtc_signals, posted, connected_users,
                   signal_request_counts, timers, inflight>>

JoinCall(u, sid) ==
    /\ VideoAuth(u, sid) = 200
    /\ msessions' = JoinTouched(msessions, sid)
    /\ connected_users' = Put(connected_users, sid,
                              Connected(connected_users, sid) \cup {u})
    /\ IF BothJoined(sid, connected_users')
       THEN /\ videos' = [videos EXCEPT ![VideoOf(sid)] =
                            [@ EXCEPT !.status = "active",
                                      !.started = @ + 1]]
            /\ timers' = timers \cup {sid}
            /\ resp' = Response("join", u, 200, 0, "started", 0, 0, sid)
       ELSE /\ UNCHANGED <<videos, timers>>
            /\ resp' = Response("join", u, 200, 0, "none", 0, 0, sid)
    /\ UNCHANGED <<now, calls, matches, next_uuid, webrtc_signals, posted,
                   signal_request_counts, inflight>>

KeptCompleted == 3

\* end_video_session, the rows it deletes: the completed sessions of the
\* same match (of no match, for an instant call) beyond the most recent
\* ones; the session being ended is not among them, its new status is not
\* flushed when the query runs.
OldSessions(v) ==
    LET same == {i \in DOMAIN videos :
                    /\ ~videos[i].deleted
                    /\ videos[i].match_id = videos[v].match_id
                    /\ videos[i].status = "completed"}
    IN  {i \in same : Cardinality({j \in same : j > i}) >= KeptCompleted}

\* end_video_session on an active session.
EndedVideosMutant(v) ==
    [i \in DOMAIN videos |->
        IF i = v THEN [videos[i] EXCEPT !.status = "completed"]
        ELSE IF i \in OldSessions(v) THEN [videos[i] EXCEPT !.deleted = TRUE]
        ELSE videos[i]]

EndedVideos(v) ==
    [i \in DOMAIN videos |->
        IF i = v THEN [videos[i] EXCEPT !.status = "completed",
                                        !.ended = @ + 1]
        ELSE IF i \in OldSessions(v) THEN [videos[i] EXCEPT !.deleted = TRUE]
        ELSE videos[i]]

EndedMatches(v) ==
    IF videos[v].match_id \in DOMAIN matches
    THEN [matches EXCEPT ![videos[v].match_id].call_completed = TRUE]
    ELSE matches

\* The status end_video_session requires.
CanEndMutant(v) == videos[v].status \in {"active", "cancelled"}

CanEnd(v) == videos[v].status = "active"

EndCallRejected(u, sid) ==
    /\ IF VideoAuth(u, sid) # 200 THEN TRUE ELSE ~CanEnd(VideoOf(sid))
    /\ resp' = Failure("end_call",
                       IF VideoAuth(u, sid) # 200 THEN VideoAuth(u, sid)
                       ELSE 400)
    /\ UNCHANGED <<now, msessions, calls, videos, matches, next_uuid,
                   webrtc_signals, posted, connected_users,
                   signal_request_counts, timers, inflight>>

EndCall(u, sid) ==
    /\ VideoAuth(u, sid) = 200
    /\ CanEnd(VideoOf(sid))
    /\ videos' = EndedVideos(VideoOf(sid))
    /\ matches' = EndedMatches(VideoOf(sid))
    /\ connected_users' = Remove(connected_users, sid)
    /\ webrtc_signals' = Remove(webrtc_signals, sid)
    /\ resp' = Response("end_call", u, 200, 0, "none", 0, 0, sid)
    /\ UNCHANGED <<now, msessions, calls, next_uuid, posted,
                   signal_request_counts, timers, inflight>>

\* auto_end_session: the background task scheduled at activation runs
\* end_video_session, which does nothing unless the session is active.  No
\* request is answered in this step.
AutoEndMutant(sid) ==
    /\ sid \in timers
    /\ timers' = timers \ {sid}
    /\ IF VideoOf(sid) # 0
       THEN /\ videos' = EndedVideos(VideoOf(sid))
            /\ matches' = EndedMatches(VideoOf(sid))
            /\ connected_users' = Remove(connected_users, sid)
            /\ webrtc_signals' = Remove(webrtc_signals, sid)
       ELSE UNCHANGED <<videos, matches, connected_users, webrtc_signals>>
    /\ resp' = NoResponse
    /\ UNCHANGED <<now, msessions, calls, next_uuid, posted,
                   signal_request_counts, inflight>>

AutoEnd(sid) ==
    /\ sid \in timers
    /\ timers' = timers \ {sid}
    /\ IF VideoOf(sid) # 0 /\ CanEnd(VideoOf(sid))
       THEN /\ videos' = EndedVideos(VideoOf(sid))
            /\ matches' = EndedMatches(VideoOf(sid))
            /\ connected_users' = Remove(connected_users, sid)
            /\ webrtc_signals' = Remove(webrtc_signals, sid)
       ELSE UNCHANGED <<videos, matches, connected_users, webrtc_signals>>
    /\ resp' = NoResponse
    /\ UNCHANGED <<now, msessions, calls, next_uuid, posted,
                   signal_request_counts, inflight>>

\* get_video_session for an instant call: the matching sessions that keep
\* the call alive, one per participant (0: none).
KeepAlive(ms, u) == First(FreshSessions(ms, u, now - VideoActiveCutoff))

GetVideoSessionRejected(u, sid) ==
    /\ VideoAuth(u, sid) # 200
    /\ resp' = Failure("get_session", VideoAuth(u, sid))
    /\ UNCHANGED <<now, msessions, calls, videos, matches, next_uuid,
                   webrtc_signals, posted, connected_users,
                   signal_request_counts, timers, inflight>>

\* get_video_session: for an instant call both participants must hold a
\* matching session active within the cutoff; those found are stamped, and
\* if one is missing the call session and the video session are cancelled.
GetVideoSession(u, sid) ==
    /\ VideoAuth(u, sid) = 200
    /\ IF videos[VideoOf(sid)].match_id # 0
       THEN /\ resp' = Response("get_session", u, 200, 0, "none", 0, 0, sid)
            /\ UNCHANGED <<msessions, calls, videos>>
       ELSE LET c == CallOf(sid)
                s1 == KeepAlive(msessions, calls[c].user1)
                s2 == KeepAlive(msessions, calls[c].user2)
            IN  /\ msessions' = [i \in DOMAIN msessions |->
                        IF i \in {s1, s2} THEN Touched(msessions[i])
                        ELSE msessions[i]]
                /\ IF s1 = 0 \/ s2 = 0
                   THEN /\ calls' = [calls EXCEPT ![c].status = "cancelled"]
                        /\ videos' = [videos EXCEPT
                                ![VideoOf(sid)].status = "cancelled"]
                        /\ resp' = Failure("get_session", 410)
                   ELSE /\ resp' = Response("get_session", u, 200, 0, "none",
                                            0, 0, sid)
                        /\ UNCHANGED <<calls, videos>>
    /\ UNCHANGED <<now, matches, next_uuid, webrtc_signals, posted,
                   connected_users, signal_request_counts, timers, inflight>>

(***************************************************************************)
(* routers/matching.py: unmatch_user; routers/video.py: start_video_call   *)
(***************************************************************************)
MatchAuth(u, m) ==
    IF m \notin DOMAIN matches THEN 404
    ELSE IF u \notin MatchUsers(m) THEN 403
    ELSE 200

UnmatchRejected(u, m) ==
    /\ MatchAuth(u, m) # 200
    /\ resp' = Failure("unmatch", MatchAuth(u, m))
    /\ UNCHANGED <<now, msessions, calls, videos, matches, next_uuid,
                   webrtc_signals, posted, connected_users,
                   signal_request_counts, timers, inflight>>

\* unmatch_user: the match is unmatched, its decisions cleared, and the
\* video session of its video_session_id cancelled if it is active.
Unmatch(u, m) ==
    /\ MatchAuth(u, m) = 200
    /\ matches' = [matches EXCEPT ![m].status = "unmatched",
                                  ![m].user_decision = "unset",
                                  ![m].matched_user_decision = "unset"]
    /\ LET v == VideoOf(matches[m].video_session_id)
       IN  videos' = IF v # 0 /\ videos[v].status = "active"
                     THEN [videos EXCEPT ![v].status = "cancelled"]
                     ELSE videos
    /\ resp' = Response("unmatch", u, 200, 0, "match", m, 0, 0)
    /\ UNCHANGED <<now, msessions, calls, next_uuid, webrtc_signals, posted,
                   connected_users, signal_request_counts, timers, inflight>>

\* The video sessions of a match, by status.
VideosOfMatch(m, statuses) ==
    {i \in DOMAIN videos : /\ ~videos[i].deleted
                           /\ videos[i].match_id = m
                           /\ videos[i].status \in statuses}

AllStatuses == {"waiting", "active", "completed", "cancelled"}

\* start_video_call: the status it raises (200: none).
StartCallCode(u, m) ==
    IF MatchAuth(u, m) # 200 THEN MatchAuth(u, m)
    ELSE IF VideosOfMatch(m, {"active"}) # {} THEN 400
    ELSE IF matches[m].status = "matched" THEN 200
    ELSE IF matches[m].call_completed THEN 400
    ELSE IF /\ VideosOfMatch(m, AllStatuses) # {}
            /\ videos[First(VideosOfMatch(m, AllStatuses))].status
                 = "completed" THEN 400
    ELSE 200

StartVideoCallRejected(u, m) ==
    /\ StartCallCode(u, m) # 200
    /\ resp' = Failure("start_call", StartCallCode(u, m))
    /\ UNCHANGED <<now, msessions, calls, videos, matches, next_uuid,
                   webrtc_signals, posted, connected_users,
                   signal_request_counts, timers, inflight>>

\* start_video_call: a mutual match reuses its waiting session or gets a new
\* one under a new session id after its completed ones are deleted; any
\* other match has one session, under the match's video_session_id.
StartVideoCall(u, m) ==
    /\ StartCallCode(u, m) = 200
    /\ LET open == VideosOfMatch(m, {"waiting", "active"})
           any == VideosOfMatch(m, AllStatuses)
           reused == IF matches[m].status = "matched"
                     THEN (IF open = {} THEN 0 ELSE SeqMax(open))
                     ELSE First(any)
           sid == IF reused # 0 THEN videos[reused].session_id
                  ELSE IF matches[m].status = "matched" THEN next_uuid
                  ELSE matches[m].video_session_id
       IN  /\ IF reused # 0
              THEN UNCHANGED <<videos, matches, next_uuid>>
              ELSE /\ Len(videos) < MaxVideos
                   /\ videos' = Append(
                         [i \in DOMAIN videos |->
                            IF /\ matches[m].status = "matched"
                               /\ i \in VideosOfMatch(m, {"completed"})
                            THEN [videos[i] EXCEPT !.deleted = TRUE]
                            ELSE videos[i]],
                         NewVideo(sid, m))
                   /\ IF matches[m].status = "matched"
                      THEN /\ matches' = [matches EXCEPT
                                            ![m].video_session_id = sid]
                           /\ next_uuid' = next_uuid + 1
                      ELSE UNCHANGED <<matches, next_uuid>>
           /\ webrtc_signals' = IF sid \in DOMAIN webrtc_signals
                                THEN webrtc_signals
                                ELSE Put(webrtc_signals, sid, <<>>)
           /\ resp' = Response("start_call", u, 200, 0, "match", m, 0, sid)
    /\ UNCHANGED <<now, msessions, calls, posted, connected_users,
                   signal_request_counts, timers, inflight>>

(***************************************************************************)
(* routers/video.py: the signalling relay                                  *)
(***************************************************************************)
\* The other participant of a session, for target_user_id 0.
OtherUserMutant(u, sid) == u

OtherUser(u, sid) ==
    IF videos[VideoOf(sid)].match_id # 0
    THEN MatchOther(matches[videos[VideoOf(sid)].match_id], u)
    ELSE OtherOf(calls[CallOf(sid)], u)

Targets == {0} \cup Users

Mailbox(sid) ==
    IF sid \in DOMAIN webrtc_signals THEN webrtc_signals[sid] ELSE <<>>

SignalRejected(u, sid) ==
    /\ VideoAuth(u, sid) # 200
    /\ resp' = Denied("signal", u, VideoAuth(u, sid), sid)
    /\ UNCHANGED <<now, msessions, calls, videos, matches, next_uuid,
                   webrtc_signals, posted, connected_users,
                   signal_request_counts, timers, inflight>>

\* webrtc_signal: the signal is appended to the session's list.  A signal is
\* named by its position in posted; requested is the target_user_id of the
\* request and returned_to lists the callers of the drains that returned it.
Signal(u, sid, target) ==
    /\ VideoAuth(u, sid) = 200
    /\ Len(posted) < MaxPosted
    /\ LET target_user_id == IF target = 0 THEN OtherUser(u, sid) ELSE target
           signal == [id |-> Len(posted) + 1, from_user_id |-> u,
                      target_user_id |-> target_user_id]
       IN  /\ webrtc_signals' = Put(webrtc_signals, sid,
                                    Append(Mailbox(sid), signal))
           /\ posted' = Append(posted,
                               [session_id |-> sid, from_user_id |-> u,
                                target_user_id |-> target_user_id,
                                requested |-> target,
                                returned_to |-> <<>>])
    /\ resp' = Response("signal", u, 200, 0, "none", 0, 0, sid)
    /\ UNCHANGED <<now, msessions, calls, videos, matches, next_uuid,
                   connected_users, signal_request_counts, timers, inflight>>

RateLimit == 60

\* get_webrtc_signals, the rate limiter: the caller's counter, created or
\* reset when more than a minute has passed since its last reset.
RateWindow(u) ==
    IF u \notin DOMAIN signal_request_counts
       \/ now > signal_request_counts[u].last_reset
    THEN [count |-> 0, last_reset |-> now]
    ELSE signal_request_counts[u]

Counted(u) ==
    Put(signal_request_counts, u,
        [RateWindow(u) EXCEPT !.count = @ + 1])

\* The caller has used up the requests of the window.
LimitedMutant(u) == RateWindow(u).count > RateLimit

Limited(u) == RateWindow(u).count >= RateLimit

SignalsLimited(u, sid) ==
    /\ Limited(u)
    /\ signal_request_counts' = Put(signal_request_counts, u, RateWindow(u))
    /\ resp' = Denied("drain", u, 429, sid)
    /\ UNCHANGED <<now, msessions, calls, videos, matches, next_uuid,
                   webrtc_signals, posted, connected_users, timers, inflight>>

\* The request is counted before the session is looked up.
SignalsRejected(u, sid) ==
    /\ ~Limited(u)
    /\ VideoAuth(u, sid) # 200
    /\ signal_request_counts' = Counted(u)
    /\ resp' = Denied("drain", u, VideoAuth(u, sid), sid)
    /\ UNCHANGED <<now, msessions, calls, videos, matches, next_uuid,
                   webrtc_signals, posted, connected_users, timers, inflight>>

\* get_webrtc_signals: the signals left in the list after a drain of u.
LeftMutant(list, u) == list

Left(list, u) == SelectSeq(list, LAMBDA g : g.target_user_id # u)

\* get_webrtc_signals: the signals targeted to the caller are returned and
\* removed from the session's list.
Signals(u, sid) ==
    /\ ~Limited(u)
    /\ VideoAuth(u, sid) = 200
    /\ signal_request_counts' = Counted(u)
    /\ LET user_signals == SelectSeq(Mailbox(sid),
                                     LAMBDA g : g.target_user_id = u)
           ids == [k \in DOMAIN user_signals |-> user_signals[k].id]
       IN  /\ webrtc_signals' =
                IF sid \in DOMAIN webrtc_signals
                THEN [webrtc_signals EXCEPT ![sid] = Left(@, u)]
                ELSE webrtc_signals
           /\ posted' = [i \in DOMAIN posted |->
                IF InSeq(i, ids)
                THEN [posted[i] EXCEPT !.returned_to = Append(@, u)]
                ELSE posted[i]]
           /\ resp' = [Response("drain", u, 200, 0, "none", 0, 0, sid)
                          EXCEPT !.signals = ids]
    /\ UNCHANGED <<now, msessions, calls, videos, matches, next_uuid,
                   connected_users, timers, inflight>>

(***************************************************************************)
(* The initial state: empty tables.                                        *)
(***************************************************************************)
EmptyMap == [x \in {} |-> 0]

Init ==
    /\ now = 0
    /\ msessions = <<>>
    /\ calls = <<>>
    /\ videos = <<>>
    /\ matches = <<>>
    /\ next_uuid = 1
    /\ webrtc_signals = EmptyMap
    /\ posted = <<>>
    /\ connected_users = EmptyMap
    /\ signal_request_counts = EmptyMap
    /\ timers = {}
    /\ inflight = <<>>
    /\ resp = NoResponse

(***************************************************************************)
(* Pairing and exclusion: polls, "next" and "skip", the legacy /find.      *)
(***************************************************************************)
NextPairing ==
    \/ \E u \in Users : \E req \in StartRequests(u) : Start(u, req)
    \/ \E u \in Users, tok \in Tokens : PollNotFound(u, tok)
    \/ \E u \in Users, tok \in Tokens : PollIncoming(u, tok)
    \/ \E u \in Users, tok \in Tokens : PollNobody(u, tok)
    \/ \E u \in Users, tok \in Tokens : PollPair(u, tok)
    \/ \E u \in Users, tok \in Tokens, id \in Ids : DecisionNotFound(u, tok, id)
    \/ \E u \in Users, tok \in Tokens, id \in Ids : NextDecision(u, tok, id)
    \/ \E u \in Users, tok \in Tokens, id \in Ids : Skip(u, tok, id)
    \/ \E u \in Users : FindMatches(u)
    \/ \E u \in Users, tok \in Tokens : End(u, tok)

SpecPairing == Init /\ [][NextPairing]_vars

(***************************************************************************)
(* Decisions: "continue" and the like / pass decisions of a call.          *)
(***************************************************************************)
NextDecisions ==
    \/ \E u \in Users : \E req \in StartRequests(u) : Start(u, req)
    \/ \E u \in Users, tok \in Tokens : PollNobody(u, tok)
    \/ \E u \in Users, tok \in Tokens : PollPair(u, tok)
    \/ \E u \in Users, tok \in Tokens, id \in Ids : DecisionNotFound(u, tok, id)
    \/ \E u \in Users, tok \in Tokens, id \in Ids : Continue(u, tok, id)
    \/ \E u \in Users, c \in Ids : CallDecisionRejected(u, c)
    \/ \E u \in Users, c \in Ids, dec \in CallDecisions : CallDecision(u, c, dec)

SpecDecisions == Init /\ [][NextDecisions]_vars

(***************************************************************************)
(* The time windows of pairing: polls while the clock advances.            *)
(***************************************************************************)
NextWindow ==
    \/ \E u \in Users : \E req \in StartRequests(u) : Start(u, req)
    \/ \E u \in Users, tok \in Tokens : PollNobody(u, tok)
    \/ \E u \in Users, tok \in Tokens : PollPair(u, tok)
    \/ Tick

SpecWindow == Init /\ [][NextWindow]_vars

(***************************************************************************)
(* Overlapping start requests: each commit of start_continuous_matching is *)
(* a step of its own.                                                      *)
(***************************************************************************)
NextRace ==
    \/ \E u \in Users : \E req \in StartRequests(u) : StartCleanup(u, req)
    \/ \E k \in 1..MaxInflight : StartInsert(k)
    \/ \E u \in Users, tok \in Tokens : End(u, tok)
    \/ Tick

SpecRace == Init /\ [][NextRace]_vars

(***************************************************************************)
(* Video calls.  The initial state is the one left by Start(1, ..),        *)
(* Start(2, ..) and a poll of user 1: both users hold an active matching   *)
(* session and wait in call session 1.                                     *)
(***************************************************************************)
InitVideo ==
    /\ now = 0
    /\ msessions = <<NewMatchingSession(1, DefaultRequest),
                     NewMatchingSession(2, DefaultRequest)>>
    /\ calls = <<NewCall(1, 2, 1)>>
    /\ videos = <<NewVideo(1, 0)>>
    /\ matches = <<>>
    /\ next_uuid = 2
    /\ webrtc_signals = EmptyMap
    /\ posted = <<>>
    /\ connected_users = EmptyMap
    /\ signal_request_counts = EmptyMap
    /\ timers = {}
    /\ inflight = <<>>
    /\ resp = Response("poll", 1, 200, 1, "call", 1, 2, 1)

NextVideo ==
    \/ \E u \in Users, sid \in SessionIds : JoinRejected(u, sid)
    \/ \E u \in Users, sid \in SessionIds : JoinCall(u, sid)
    \/ \E u \in Users, sid \in SessionIds : EndCallRejected(u, sid)
    \/ \E u \in Users, sid \in SessionIds : EndCall(u, sid)
    \/ \E sid \in SessionIds : AutoEnd(sid)
    \/ \E u \in Users, sid \in SessionIds : GetVideoSessionRejected(u, sid)
    \/ \E u \in Users, sid \in SessionIds : GetVideoSession(u, sid)
    \/ \E u \in Users, tok \in Tokens : End(u, tok)
    \/ \E u \in Users : FindMatches(u)
    \/ \E u \in Users, m \in Ids : StartVideoCallRejected(u, m)
    \/ \E u \in Users, m \in Ids : StartVideoCall(u, m)
    \/ \E u \in Users, m \in Ids : UnmatchRejected(u, m)
    \/ \E u \in Users, m \in Ids : Unmatch(u, m)

SpecVideo == InitVideo /\ [][NextVideo]_vars

\* The background task scheduled at activation is run: the event loop
\* resumes auto_end_session once its sleep is over.
SpecVideoFair ==
    SpecVideo /\ \A sid \in AllSessionIds : WF_vars(AutoEnd(sid))

(***************************************************************************)
(* The signalling relay of a call, from the same initial state.            *)
(***************************************************************************)
NextRelay ==
    \/ \E u \in Users, sid \in SessionIds : SignalRejected(u, sid)
    \/ \E u \in Users, sid \in SessionIds, t \in Targets : Signal(u, sid, t)
    \/ \E u \in Users, sid \in SessionIds :
            RateWindow(u).count < MaxRequests /\ SignalsRejected(u, sid)
    \/ \E u \in Users, sid \in SessionIds :
            RateWindow(u).count < MaxRequests /\ Signals(u, sid)

SpecRelay == InitVideo /\ [][NextRelay]_vars

(***************************************************************************)
(* The rate limiter of the relay: user 1 drains as often as the limiter    *)
(* lets it, user 2 posts, and the clock advances.                          *)
(***************************************************************************)
NextRate ==
    \/ \E sid \in SessionIds : SignalsLimited(1, sid)
    \/ \E sid \in SessionIds : SignalsRejected(1, sid)
    \/ \E sid \in SessionIds : Signals(1, sid)
    \/ \E sid \in SessionIds, t \in {0, 2} : Signal(2, sid, t)
    \/ Tick

SpecRate == InitVideo /\ [][NextRate]_vars

(***************************************************************************)
(* The relay while the participants of the call end their matching         *)
(* sessions.                                                               *)
(***************************************************************************)
NextAccess ==
    \/ \E u \in Users, tok \in Tokens : End(u, tok)
    \/ \E u \in Users, sid \in SessionIds : SignalRejected(u, sid)
    \/ \E u \in Users, sid \in SessionIds, t \in Targets : Signal(u, sid, t)
    \/ \E u \in Users, sid \in SessionIds :
            RateWindow(u).count < MaxRequests /\ SignalsRejected(u, sid)
    \/ \E u \in Users, sid \in SessionIds :
            RateWindow(u).count < MaxRequests /\ Signals(u, sid)

SpecAccess == InitVideo /\ [][NextAccess]_vars

(***************************************************************************)
(* Inbound pairings: matches made by the legacy /find and the polls that   *)
(* return them.                                                            *)
(***************************************************************************)
NextInbound ==
    \/ \E u \in Users : Start(u, DefaultRequest)
    \/ \E u \in Users : FindMatches(u)
    \/ \E u \in Users, tok \in Tokens :
            PollIncomingWithin(MaxInboundCount, u, tok)
    \/ Tick

SpecInbound == Init /\ [][NextInbound]_vars

(***************************************************************************)
(* Candidate discovery in a pool of three users: the filters of a start,   *)
(* the skips of user 1 and the clock.                                      *)
(***************************************************************************)
NextDiscovery ==
    \/ \E u \in Users : \E req \in StartRequests(u) :
            StartWithin(MaxRestartMS, u, req)
    \/ \E u \in Users, tok \in RestartTokens : PollNobody(u, tok)
    \/ \E u \in Users, tok \in RestartTokens : PollPair(u, tok)
    \/ \E tok \in RestartTokens, id \in Ids : Skip(1, tok, id)
    \/ Tick

SpecDiscovery == Init /\ [][NextDiscovery]_vars

(***************************************************************************)
(* Mutual matches and the decisions that follow them.                      *)
(***************************************************************************)
NextMatched ==
    \/ \E u \in Users : Start(u, DefaultRequest)
    \/ \E u \in Users, tok \in Tokens : PollPair(u, tok)
    \/ \E u \in Users, c \in Ids, dec \in CallDecisions : CallDecision(u, c, dec)
    \/ \E u \in Users, tok \in Tokens, id \in Ids : DecisionNotFound(u, tok, id)
    \/ \E u \in Users, tok \in Tokens, id \in Ids : NextDecision(u, tok, id)
    \/ \E u \in Users, tok \in Tokens : End(u, tok)

SpecMatched == Init /\ [][NextMatched]_vars

(***************************************************************************)
(* Three users in the pool: every user may hold a matching session at the  *)
(* same time, and a user may start again while waiting in a call.          *)
(***************************************************************************)
NextBooking ==
    \/ \E u \in Users : StartWithin(MaxRestartMS, u, DefaultRequest)
    \/ \E u \in Users, tok \in RestartTokens : PollNotFound(u, tok)
    \/ \E u \in Users, tok \in RestartTokens : PollNobody(u, tok)
    \/ \E u \in Users, tok \in RestartTokens : PollPair(u, tok)
    \/ \E u \in Users, tok \in RestartTokens : End(u, tok)

SpecBooking == Init /\ [][NextBooking]_vars

(***************************************************************************)
(* Exclusion while starts overlap: user 2 may have several start requests  *)
(* in flight, user 1 starts, ends and starts again; polls and the "skip"   *)
(* of user 2.                                                              *)
(***************************************************************************)
NextOverlap ==
    \/ StartWithin(MaxOverlapMS, 1, DefaultRequest)
    \/ StartCleanup(2, DefaultRequest)
    \/ \E k \in 1..MaxInflight : StartInsertWithin(MaxOverlapMS, k)
    \/ \E u \in {1, 2}, tok \in OverlapTokens : PollPair(u, tok)
    \/ \E tok \in OverlapTokens, id \in Ids : Skip(2, tok, id)
    \/ \E tok \in OverlapTokens : End(1, tok)

SpecOverlap == Init /\ [][NextOverlap]_vars

(***************************************************************************)
(* Retention of completed video sessions.  The initial state is the one    *)
(* left by KeptCompleted + 1 instant calls of user 3, with users 1 and 2   *)
(* in turn, each joined by both, ended and answered "next", and by a poll  *)
(* that paired users 1 and 2 in a call session that is still waiting.      *)
(***************************************************************************)
CompletedCall(a, b, sid) == [NewCall(a, b, sid) EXCEPT !.status = "completed"]

CompletedVideo(sid) ==
    [NewVideo(sid, 0) EXCEPT !.status = "completed", !.started = 1,
                             !.ended = 1]

InitRetention ==
    /\ now = 0
    /\ msessions = <<NewMatchingSession(1, DefaultRequest),
                     NewMatchingSession(2, DefaultRequest)>>
    /\ calls = [k \in 1..(KeptCompleted + 2) |->
                    IF k <= KeptCompleted + 1
                    THEN CompletedCall(IF k % 2 = 1 THEN 1 ELSE 2, 3, k)
                    ELSE NewCall(1, 2, k)]
    /\ videos = [k \in 1..(KeptCompleted + 2) |->
                    IF k <= KeptCompleted + 1
                    THEN CompletedVideo(k)
                    ELSE NewVideo(k, 0)]
    /\ matches = <<>>
    /\ next_uuid = KeptCompleted + 3
    /\ webrtc_signals = EmptyMap
    /\ posted = <<>>
    /\ connected_users = EmptyMap
    /\ signal_request_counts = EmptyMap
    /\ timers = {}
    /\ inflight = <<>>
    /\ resp = Response("poll", 1, 200, 1, "call", KeptCompleted + 2, 2,
                       KeptCompleted + 2)

NextRetention ==
    \/ \E u \in Users, sid \in SessionIds : JoinRejected(u, sid)
    \/ \E u \in Users, sid \in SessionIds : JoinCall(u, sid)
    \/ \E u \in Users, sid \in SessionIds : EndCallRejected(u, sid)
    \/ \E u \in Users, sid \in SessionIds : EndCall(u, sid)
    \/ \E sid \in SessionIds : AutoEnd(sid)

SpecRetention == InitRetention /\ [][NextRetention]_vars

(***************************************************************************)
(* The mailbox of a call over its whole life: the participants join, post, *)
(* drain and end the call, and the auto-end task runs.                     *)
(***************************************************************************)
NextMailbox ==
    \/ \E u \in {1, 2}, sid \in SessionIds : JoinCall(u, sid)
    \/ \E u \in {1, 2}, sid \in SessionIds : EndCall(u, sid)
    \/ \E sid \in SessionIds : AutoEnd(sid)
    \/ \E u \in {1, 2}, sid \in SessionIds : Signal(u, sid, 0)
    \/ \E u \in {1, 2}, sid \in SessionIds :
            RateWindow(u).count < MaxRequests /\ Signals(u, sid)

SpecMailbox == InitVideo /\ [][NextMailbox]_vars

(***************************************************************************)
(* Decisions submitted again: the participants of a call answer like or    *)
(* pass as often as they wish, with room for a second match row and a      *)
(* second increment of the counters.                                       *)
(***************************************************************************)
NextRepeat ==
    \/ \E u \in Users : Start(u, DefaultRequest)
    \/ \E u \in Users, tok \in Tokens : PollPair(u, tok)
    \/ \E u \in Users, c \in Ids : CallDecisionRejected(u, c)
    \/ \E u \in Users, c \in Ids, dec \in CallDecisions :
            CallDecisionWithin(MaxRepeatMatches, MaxRepeatCount, u, c, dec)
    \/ \E u \in Users, tok \in Tokens : End(u, tok)

SpecRepeat == Init /\ [][NextRepeat]_vars

(***************************************************************************)
(* Two users in the pool.  The initial state is the one left by the starts *)
(* of users 1 and 2; the two poll and the clock advances.  In the fair     *)
(* specification both keep polling: the client of each user repeats its    *)
(* poll for as long as the user waits.                                     *)
(***************************************************************************)
InitPool ==
    /\ now = 0
    /\ msessions = <<NewMatchingSession(1, DefaultRequest),
                     NewMatchingSession(2, DefaultRequest)>>
    /\ calls = <<>>
    /\ videos = <<>>
    /\ matches = <<>>
    /\ next_uuid = 1
    /\ webrtc_signals = EmptyMap
    /\ posted = <<>>
    /\ connected_users = EmptyMap
    /\ signal_request_counts = EmptyMap
    /\ timers = {}
    /\ inflight = <<>>
    /\ resp = Response("start", 2, 200, 2, "none", 0, 0, 0)

Poll(u) == \E tok \in Tokens : PollNobody(u, tok) \/ PollPair(u, tok)

NextPool ==
    \/ \E u \in {1, 2} : Poll(u)
    \/ Tick

SpecPool == InitPool /\ [][NextPool]_vars

SpecPoolFair == SpecPool /\ WF_vars(Poll(1)) /\ WF_vars(Poll(2))

(***************************************************************************)
(* calculate_compatibility_score on its own: a call is in flight with two  *)
(* profiles, whose trait values lie in 1..10, whose age windows may be     *)
(* wide, narrow or empty, and whose interest sets may be empty; the call    *)
(* returns the score.                                                      *)
(***************************************************************************)
ScoreTraits == {<<1, 1, 1, 1, 1>>, <<10, 10, 10, 10, 10>>, <<1, 10, 5, 6, 10>>}

ScoreWindows == {<<18, 100>>, <<25, 35>>, <<40, 20>>}

ScoreProfiles ==
    {[age |-> a, min_age |-> w[1], max_age |-> w[2], traits |-> t,
      looking_for |-> l, interests |-> i] :
        a \in {18, 30}, w \in ScoreWindows, t \in ScoreTraits,
        l \in {"serious", "casual", "friends"},
        i \in SUBSET {"music", "hiking"}}

InitScore ==
    /\ now = 0
    /\ msessions = <<>>
    /\ calls = <<>>
    /\ videos = <<>>
    /\ matches = <<>>
    /\ next_uuid = 1
    /\ webrtc_signals = EmptyMap
    /\ posted = <<>>
    /\ connected_users = EmptyMap
    /\ signal_request_counts = EmptyMap
    /\ timers = {}
    /\ \E p \in ScoreProfiles, q \in ScoreProfiles :
          inflight = <<[op |-> "score", user_profile |-> p,
                        other_profile |-> q]>>
    /\ resp = NoResponse

\* The call returns: resp carries the arguments and the score.
Score ==
    /\ inflight # <<>>
    /\ inflight[1].op = "score"
    /\ resp' = [op |-> "score", code |-> 200,
                user_profile |-> inflight[1].user_profile,
                other_profile |-> inflight[1].other_profile,
                score |-> calculate_compatibility_score(
                              inflight[1].user_profile,
                              inflight[1].other_profile)]
    /\ inflight' = Tail(inflight)
    /\ UNCHANGED <<now, msessions, calls, videos, matches, next_uuid,
                   webrtc_signals, posted, connected_users,
                   signal_request_counts, timers>>

NextScore == Score

SpecScore == InitScore /\ [][NextScore]_vars

(***************************************************************************)
(* Claims                                                                  *)
(***************************************************************************)
\* C1: at every moment each user holds at most one matching session with
\* status "active", whatever the interleaving of start, poll, decision and
\* end requests, overlapping start requests of one user included.
C1_AtMostOneActiveSession ==
    \A u \in Users : Cardinality(ActiveSessions(msessions, u)) <= 1

\* C2: for every pair of users at most one call session between them has a
\* status in {waiting, active}.
C2_AtMostOneOpenCall ==
    \A i, j \in DOMAIN calls :
        (/\ i # j
         /\ Participants(calls[i]) = Participants(calls[j])
         /\ calls[i].status \in OpenStatuses)
        => calls[j].status \notin OpenStatuses

\* C3: a match is created from a call session exactly when both recorded
\* decisions of that call session are "like"; while any other combination
\* of decisions is recorded, no match of that call session exists in the
\* next state (nor, step by step, in any later one).
C3_MatchIffBothLike ==
    [][\A c \in DOMAIN calls :
          LET before == MatchOfSession(calls[c].session_id)
              after == {i \in DOMAIN matches' :
                          matches'[i].video_session_id = calls[c].session_id}
          IN  /\ (after # before) => BothLike(calls'[c])
              /\ BothLike(calls'[c]) => after # {}
              /\ (BothDecided(calls[c]) /\ ~BothLike(calls[c])) => after = {}
      ]_vars

\* C4: started_at of a video session is written exactly once, in the step
\* that takes the session from waiting to active, and only when both
\* expected participants have joined it; an end call on a session that is
\* not active fails and changes nothing.
C4_StartedOnceWhenBothJoined ==
    [][/\ \A v \in DOMAIN videos :
            LET sid == videos[v].session_id
                activated == /\ videos[v].status = "waiting"
                             /\ videos'[v].status = "active"
            IN  /\ activated <=> (videos'[v].started # videos[v].started)
                /\ activated
                   => /\ videos[v].started = 0
                      /\ videos'[v].started = 1
                      /\ ExpectedUsers(sid) \subseteq
                            Connected(connected_users', sid)
       /\ (resp'.op = "end_call" /\ resp'.code = 200)
          => videos[VideoOf(resp'.sid)].status = "active"
       /\ (resp'.op = "end_call" /\ resp'.code # 200)
          => UNCHANGED <<videos, matches, connected_users, webrtc_signals>>
      ]_vars

\* A session was started, and an end call on a session that is not active
\* has just failed.
C4_Witness ==
    /\ \E v \in DOMAIN videos : videos[v].started = 1
    /\ resp = Failure("end_call", 400)

\* C5: once a session's owner has answered "skip" about a user, no poll on
\* that session returns that user while the session's exclusion list
\* contains the user.
C5_SkippedNotOfferedAgain ==
    (resp.op = "poll" /\ resp.code = 200 /\ resp.partner # 0)
    => ~(/\ resp.partner \in msessions[resp.tok].skipped
         /\ InSeq(resp.partner, msessions[resp.tok].excl))

\* C6: a user who answered "skip" about the owner of a session that was
\* active at that moment is in that session's exclusion list from then on,
\* and no poll on that session returns that user.
C6_SkipperNotOfferedToSkipped ==
    /\ \A i \in DOMAIN msessions :
          \A a \in msessions[i].skipped_by : InSeq(a, msessions[i].excl)
    /\ (resp.op = "poll" /\ resp.code = 200 /\ resp.partner # 0)
       => resp.partner \notin msessions[resp.tok].skipped_by

VideoStatus(sid) ==
    IF VideoOf(sid) = 0 THEN "none" ELSE videos[VideoOf(sid)].status

\* C7 as stated: a video session that has become active is eventually
\* completed, with ended_at written and its mailbox removed.
C7_ActiveLeadsToCompleted ==
    \A sid \in AllSessionIds :
        (VideoStatus(sid) = "active")
        ~> (/\ VideoStatus(sid) = "completed"
            /\ videos[VideoOf(sid)].ended = 1
            /\ sid \notin DOMAIN webrtc_signals)

\* C7 amended: a video session that has become active eventually leaves
\* that status, to completed or to cancelled; the step that completes it
\* writes ended_at and removes its mailbox.
C7_ActiveLeadsToCompletedOrCancelled ==
    /\ \A sid \in AllSessionIds :
          (VideoStatus(sid) = "active")
          ~> (VideoStatus(sid) \in {"completed", "cancelled"})
    /\ [][\A v \in DOMAIN videos :
            (videos[v].status = "active" /\ videos'[v].status = "completed")
            => /\ videos'[v].ended = videos[v].ended + 1
               /\ videos[v].session_id \notin DOMAIN webrtc_signals'
         ]_vars

\* The background task has just completed a session whose mailbox existed.
C7_Witness ==
    /\ resp = NoResponse
    /\ \E v \in DOMAIN videos :
          /\ videos[v].status = "completed"
          /\ videos[v].ended = 1
          /\ videos[v].match_id # 0
          /\ videos[v].session_id \notin timers
          /\ videos[v].session_id \notin DOMAIN webrtc_signals

\* C8: every signal is returned by at most one drain, and only to its
\* target user; a drain returns the caller's pending signals in the order
\* they were appended and removes them from the list.
C8_DeliveredAtMostOnceInOrder ==
    /\ [](\A i \in DOMAIN posted :
            /\ Len(posted[i].returned_to) <= 1
            /\ \A k \in DOMAIN posted[i].returned_to :
                  posted[i].returned_to[k] = posted[i].target_user_id)
    /\ [][(resp'.op = "drain" /\ resp'.code = 200)
          => LET u == resp'.user
                 pending == {g.id : g \in
                               {Mailbox(resp'.sid)[k] :
                                  k \in {j \in DOMAIN Mailbox(resp'.sid) :
                                     Mailbox(resp'.sid)[j].target_user_id = u}}}
                 left == IF resp'.sid \in DOMAIN webrtc_signals'
                         THEN webrtc_signals'[resp'.sid] ELSE <<>>
             IN  /\ {resp'.signals[k] : k \in DOMAIN resp'.signals} = pending
                 /\ \A j, k \in DOMAIN resp'.signals :
                       j < k => resp'.signals[j] < resp'.signals[k]
                 /\ \A k \in DOMAIN left : left[k].target_user_id # u
         ]_vars

\* Two signals were returned to their target by one drain, and a second
\* drain of the same user has just returned nothing.
C8_Witness ==
    /\ resp.op = "drain"
    /\ resp.code = 200
    /\ resp.signals = <<>>
    /\ Len(posted) = 2
    /\ \A i \in DOMAIN posted :
          /\ posted[i].session_id = resp.sid
          /\ posted[i].returned_to = <<resp.user>>

\* C9: the status of a video session changes only from waiting to active,
\* from active to completed, or to cancelled; a completed or cancelled
\* session never becomes waiting or active again.
C9_StatusTransitions ==
    [][\A v \in DOMAIN videos :
          videos'[v].status # videos[v].status
          => \/ videos[v].status = "waiting" /\ videos'[v].status = "active"
             \/ videos[v].status = "active" /\ videos'[v].status = "completed"
             \/ videos'[v].status = "cancelled"
      ]_vars

\* A session that was completed has been cancelled by a later get-session.
C9_Witness ==
    \E v \in DOMAIN videos :
        /\ videos[v].status = "cancelled"
        /\ videos[v].ended = 1

OpenCallsOf(cs, u) ==
    {i \in DOMAIN cs : u \in Participants(cs[i]) /\ cs[i].status \in OpenStatuses}

\* C11: no user is double-booked: at every moment each user is a participant
\* of at most one call session whose status is waiting or active.
C11_NoDoubleBooking ==
    \A u \in Users : Cardinality(OpenCallsOf(calls, u)) <= 1

\* The two users a video session belongs to ({}: the session id names no
\* video session, or one without its match or call session).
SessionUsers(sid) ==
    IF \A i \in DOMAIN videos : videos[i].session_id # sid \/ videos[i].deleted
    THEN {}
    ELSE LET v == CHOOSE i \in DOMAIN videos :
                      videos[i].session_id = sid /\ ~videos[i].deleted
         IN  IF videos[v].match_id # 0
             THEN IF videos[v].match_id \in DOMAIN matches
                  THEN {matches[videos[v].match_id].user_id,
                        matches[videos[v].match_id].matched_user_id}
                  ELSE {}
             ELSE UNION {{calls[i].user1, calls[i].user2} :
                            i \in {j \in DOMAIN calls : calls[j].session_id = sid}}

\* C12: a post (webrtc_signal) by a caller who is not one of the session's
\* two participants is answered 403 and leaves every mailbox as it was; a
\* post by a participant is accepted, appends exactly one message, sent by
\* the caller, at the end of that session's mailbox and changes no other
\* mailbox.
C12_PostOnlyByParticipants ==
    [][resp'.op = "signal" =>
        LET u == resp'.user
            sid == resp'.sid
            old == IF sid \in DOMAIN webrtc_signals
                   THEN webrtc_signals[sid] ELSE <<>>
        IN  IF u \in SessionUsers(sid)
            THEN /\ resp'.code = 200
                 /\ sid \in DOMAIN webrtc_signals'
                 /\ Len(webrtc_signals'[sid]) = Len(old) + 1
                 /\ SubSeq(webrtc_signals'[sid], 1, Len(old)) = old
                 /\ webrtc_signals'[sid][Len(old) + 1].from_user_id = u
                 /\ \A x \in DOMAIN webrtc_signals' \ {sid} :
                        /\ x \in DOMAIN webrtc_signals
                        /\ webrtc_signals'[x] = webrtc_signals[x]
            ELSE /\ resp'.code # 200
                 /\ SessionUsers(sid) # {} => resp'.code = 403
                 /\ webrtc_signals' = webrtc_signals]_vars

\* A post of user 3, who is in no call, was refused while the mailbox of the
\* call of users 1 and 2 holds an accepted post.
C12_Witness ==
    /\ resp.op = "signal"
    /\ resp.code = 403
    /\ resp.user \notin SessionUsers(resp.sid)
    /\ resp.sid \in DOMAIN webrtc_signals
    /\ Len(webrtc_signals[resp.sid]) >= 1

\* C13: a caller is granted at most RateLimit drains per rate window: no
\* counter exceeds the limit, and a drain by a caller whose counter has
\* reached the limit in a window that has not been reset is answered 429,
\* returns no message and removes none from any mailbox.
C13_DrainRateLimited ==
    [][/\ \A u \in DOMAIN signal_request_counts' :
            signal_request_counts'[u].count <= RateLimit
       /\ resp'.op = "drain" =>
            LET u == resp'.user
            IN  (/\ u \in DOMAIN signal_request_counts
                 /\ signal_request_counts[u].count >= RateLimit
                 /\ now <= signal_request_counts[u].last_reset)
                => /\ resp'.code = 429
                   /\ resp'.signals = <<>>
                   /\ webrtc_signals' = webrtc_signals
                   /\ posted' = posted]_vars

\* A drain was answered 429 while a message for the caller waits in the
\* mailbox of the session.
C13_Witness ==
    /\ resp.op = "drain"
    /\ resp.code = 429
    /\ resp.sid \in DOMAIN webrtc_signals
    /\ \E k \in DOMAIN webrtc_signals[resp.sid] :
            webrtc_signals[resp.sid][k].target_user_id = resp.user

\* C14: a post or a drain on the video session of an instant call is denied
\* when one of the two participants holds no active matching session touched
\* within the cutoff, and the call session and its video session are then
\* both cancelled.
C14_RelayRevalidatesMatching ==
    [][(/\ resp'.op \in {"signal", "drain"}
        /\ VideoOf(resp'.sid) # 0
        /\ videos[VideoOf(resp'.sid)].match_id = 0
        /\ CallOf(resp'.sid) # 0
        /\ resp'.user \in Participants(calls[CallOf(resp'.sid)])
        /\ \E p \in Participants(calls[CallOf(resp'.sid)]) :
                FreshSessions(msessions, p, now - VideoActiveCutoff) = {})
       => /\ resp'.code # 200
          /\ calls'[CallOf(resp'.sid)].status = "cancelled"
          /\ videos'[VideoOf(resp'.sid)].status = "cancelled"]_vars

\* C15: right after start by user U, every earlier matching session of U is
\* completed, no call session that includes U is waiting or active, and the
\* exclusion list of the new session is empty (it excludes only U).
C15_StartLeavesNoOpenCall ==
    (resp.op = "start" /\ resp.code = 200)
    => /\ \A i \in DOMAIN msessions :
            (msessions[i].user = resp.user /\ i # resp.tok)
            => msessions[i].status = "completed"
       /\ msessions[resp.tok].status = "active"
       /\ msessions[resp.tok].excl = <<>>
       /\ OpenCallsOf(calls, resp.user) = {}

\* The waiting or active call sessions that include u and were created by
\* the poll of the other participant.
InboundCalls(cs, u) == {i \in OpenCallsOf(cs, u) : cs[i].created_by # u}

\* C16: when the poll of the counterpart has already created a waiting or
\* active call session that includes the polling user, the poll returns that
\* call session, with its video session id, and creates no other call
\* session.
C16_PollReturnsInboundCall ==
    [][(/\ resp'.op = "poll"
        /\ resp'.code = 200
        /\ InboundCalls(calls, resp'.user) # {})
       => /\ resp'.kind = "call"
          /\ resp'.id \in InboundCalls(calls, resp'.user)
          /\ resp'.sid = calls[resp'.id].session_id
          /\ Len(calls') = Len(calls)]_vars

\* The match rows a user is part of.
MatchesOf(u) ==
    {m \in DOMAIN matches : u \in {matches[m].user_id, matches[m].matched_user_id}}

\* C17: polls that return the same inbound pairing count it once: where only
\* inbound pairings are counted, matches_made of a matching session never
\* exceeds the number of pairings of its user, however often the poll is
\* repeated.
C17_InboundCountedOnce ==
    \A tok \in DOMAIN msessions :
        msessions[tok].matches_made
            <= Cardinality(MatchesOf(msessions[tok].user))

\* C18: a poll whose token is unknown, belongs to another user or names a
\* completed session is answered 404 and changes nothing: a poll is answered
\* 200 only with the token of an active session of the caller, and a poll
\* answered 404 leaves every matching session (its last_active included),
\* every call session and every video session as it was.
C18_PollNotFoundChangesNothing ==
    [][resp'.op = "poll" =>
        /\ resp'.code \in {200, 404}
        /\ resp'.code = 200 =>
              /\ resp'.tok \in DOMAIN msessions
              /\ msessions[resp'.tok].user = resp'.user
              /\ msessions[resp'.tok].status = "active"
        /\ resp'.code = 404 =>
              UNCHANGED <<msessions, calls, videos, matches, next_uuid>>]_vars

\* A poll was answered 404 while a completed matching session exists and a
\* call session waits.
C18_Witness ==
    /\ resp.op = "poll"
    /\ resp.code = 404
    /\ \E i \in DOMAIN msessions : msessions[i].status = "completed"
    /\ \E c \in DOMAIN calls : calls[c].status = "waiting"

\* C19: the user candidate discovery returns for a poll by A is, at that
\* moment, different from A, absent from the exclusion list of A's session,
\* of an age within the session's [min_age, max_age], marked active, and
\* owner of an active matching session touched within the last 5 minutes.
C19_CandidateMeetsFilters ==
    (resp.op = "poll" /\ resp.code = 200 /\ resp.kind = "call")
    => LET a == msessions[resp.tok]
           p == resp.partner
       IN  /\ p # resp.user
           /\ \A k \in DOMAIN a.excl : a.excl[k] # p
           /\ Profile(p).age >= a.min_age
           /\ Profile(p).age <= a.max_age
           /\ UserIsActive(p)
           /\ \E i \in DOMAIN msessions :
                /\ msessions[i].user = p
                /\ msessions[i].status = "active"
                /\ msessions[i].last_active >= now - SessionTimeout

\* A poll returned a partner while a third user, who is on the exclusion
\* list of the polling session, holds a fresh active matching session.
C19_Witness ==
    /\ resp.op = "poll" /\ resp.code = 200 /\ resp.kind = "call"
    /\ \E i \in DOMAIN msessions :
        /\ msessions[i].user \notin {resp.user, resp.partner}
        /\ msessions[i].status = "active"
        /\ msessions[i].last_active >= now - SessionTimeout
        /\ InSeq(msessions[i].user, msessions[resp.tok].excl)

\* C20: after end(session_token) succeeds, that matching session has status
\* completed with ended_at set, and no call session that includes the caller
\* is waiting or active.
C20_EndCompletesAndCancels ==
    (resp.op = "end" /\ resp.code = 200)
    => /\ msessions[resp.tok].user = resp.user
       /\ msessions[resp.tok].status = "completed"
       /\ msessions[resp.tok].ended
       /\ \A c \in DOMAIN calls :
            resp.user \in {calls[c].user1, calls[c].user2}
            => calls[c].status \notin {"waiting", "active"}

\* An end succeeded and a call session of the caller is cancelled.
C20_Witness ==
    /\ resp.op = "end" /\ resp.code = 200
    /\ \E c \in DOMAIN calls :
        /\ resp.user \in {calls[c].user1, calls[c].user2}
        /\ calls[c].status = "cancelled"

\* The matching sessions a call decision counts in: the active sessions of
\* the two participants of a call session.
CountedSessions(row) ==
    {i \in DOMAIN msessions :
        msessions[i].user \in {row.user1, row.user2}
        /\ msessions[i].status = "active"}

\* C21: when the second "like" of a call session is recorded,
\* successful_matches of each participant's active matching session
\* increases by exactly 1 and the call session becomes completed; when both
\* decisions are recorded and not both are "like", the call session becomes
\* completed and no counter of either participant changes.
C21_SecondLikeCountsOnce ==
    [][\A c \in DOMAIN calls :
        LET old == calls[c]
            new == calls'[c]
            recorded == <<old.user1_decision, old.user2_decision>>
                            # <<new.user1_decision, new.user2_decision>>
            both == new.user1_decision # "unset" /\ new.user2_decision # "unset"
            likes == new.user1_decision = "like" /\ new.user2_decision = "like"
        IN  /\ (recorded /\ likes)
               => /\ new.status = "completed"
                  /\ \A i \in CountedSessions(old) :
                        msessions'[i].successful_matches
                            = msessions[i].successful_matches + 1
            /\ (recorded /\ both /\ ~likes)
               => /\ new.status = "completed"
                  /\ \A i \in CountedSessions(old) :
                        /\ msessions'[i].successful_matches
                              = msessions[i].successful_matches
                        /\ msessions'[i].matches_made
                              = msessions[i].matches_made]_vars

\* C22: a match whose status is matched keeps status matched under every
\* continuous-matching operation by any user (start, poll, continue / next /
\* skip decision, call decision, end).
C22_MatchedStaysMatched ==
    [][\A m \in DOMAIN matches :
        matches[m].status = "matched" => matches'[m].status = "matched"]_vars

\* C23: a continue / next / skip decision of a caller who is not one of the
\* two participants of the referenced pairing is rejected and changes
\* nothing: no decision changes the status of a match or of a call session
\* that its caller is not part of.
C23_DecisionOnlyByParticipants ==
    [][resp'.op \in {"continue", "next", "skip"} =>
        /\ \A m \in DOMAIN matches :
              resp'.user \notin {matches[m].user_id, matches[m].matched_user_id}
              => matches'[m].status = matches[m].status
        /\ \A c \in DOMAIN calls :
              resp'.user \notin {calls[c].user1, calls[c].user2}
              => calls'[c].status = calls[c].status]_vars

\* C24: a message posted with target 0 by participant P of a session is
\* stored with its target set to the other participant of that session, and
\* is returned only to drains of that other participant.
C24_TargetZeroIsOtherParticipant ==
    \A i \in DOMAIN posted :
        posted[i].requested = 0
        => LET other == SessionUsers(posted[i].session_id)
                            \ {posted[i].from_user_id}
           IN  /\ other = {posted[i].target_user_id}
               /\ \A k \in DOMAIN posted[i].returned_to :
                      posted[i].returned_to[k] \in other
               /\ \A sid \in DOMAIN webrtc_signals :
                    \A k \in DOMAIN webrtc_signals[sid] :
                      webrtc_signals[sid][k].id = i
                      => /\ sid = posted[i].session_id
                         /\ webrtc_signals[sid][k].target_user_id \in other

\* A message posted with target 0 was returned by a drain.
C24_Witness ==
    \E i \in DOMAIN posted :
        /\ posted[i].requested = 0
        /\ posted[i].returned_to # <<>>

\* C25: decision "next" leaves the exclusion list, matches_made and
\* successful_matches of every MatchingSession as they were, those of the
\* caller and of the other participant included.
C25_NextLeavesSessionsAlone ==
    [][resp'.op = "next" /\ resp'.code = 200 =>
        /\ DOMAIN msessions' = DOMAIN msessions
        /\ \A i \in DOMAIN msessions :
              /\ msessions'[i].excl = msessions[i].excl
              /\ msessions'[i].matches_made = msessions[i].matches_made
              /\ msessions'[i].successful_matches
                    = msessions[i].successful_matches]_vars

\* A "next" decision on a call session between two users who both have an
\* active MatchingSession has been taken.
C25_Witness ==
    /\ resp.op = "next"
    /\ resp.code = 200
    /\ \E c \in DOMAIN calls :
          /\ calls[c].status = "completed"
          /\ resp.user \in Participants(calls[c])
          /\ \A p \in Participants(calls[c]) : ActiveSessions(msessions, p) # {}

\* C26: the status of a MatchingSession only moves from active to
\* completed: no step sets a completed session back to active, no row is
\* removed, and every start inserts a new active row for the caller.
C26_StatusOnlyCompletes ==
    [][/\ \A i \in DOMAIN msessions :
             /\ i \in DOMAIN msessions'
             /\ msessions'[i].status \in {"active", "completed"}
             /\ msessions[i].status = "completed"
                    => msessions'[i].status = "completed"
       /\ resp'.op = "start" /\ resp'.code = 200
             => /\ Len(msessions') = Len(msessions) + 1
                /\ resp'.tok = Len(msessions')
                /\ msessions'[resp'.tok].status = "active"
                /\ msessions'[resp'.tok].user = resp'.user]_vars

\* A user whose earlier session is completed has started again.
C26_Witness ==
    /\ resp.op = "start"
    /\ resp.code = 200
    /\ \E i \in DOMAIN msessions :
          /\ i < resp.tok
          /\ msessions[i].user = resp.user
          /\ msessions[i].ended
          /\ msessions[i].status = "completed"

\* C27: calculate_compatibility_score returns a value between 0 and 1
\* (0 and ScoreScale here) for every pair of profiles with trait values in
\* 1..10, whatever the age windows, the intents and the interest sets, empty
\* ones included.
C27_ScoreInUnitInterval ==
    resp.op = "score" => resp.score \in 0..ScoreScale

\* The score of two profiles without interests, one of them with an empty
\* age window, with different intents and traits as far apart as 1 and 10
\* was returned.
C27_Witness ==
    /\ resp.op = "score"
    /\ resp.user_profile.interests = {}
    /\ resp.other_profile.interests = {}
    /\ resp.user_profile.min_age > resp.user_profile.max_age
    /\ PersonalityPoints(resp.user_profile, resp.other_profile) = 5
    /\ resp.score = 48 * 5

\* C28: when a poll pairs the caller with a user by creating a call
\* session, that user is in the exclusion list of the caller's
\* MatchingSession after the poll.
C28_PollExcludesPartner ==
    [][/\ resp'.op = "poll"
       /\ resp'.code = 200
       /\ resp'.kind = "call"
       /\ Len(calls') = Len(calls) + 1
       => InSeq(resp'.partner, msessions'[resp'.tok].excl)]_vars

\* C29: a poll by A never returns, through candidate discovery, a user B
\* who holds an active MatchingSession touched within the last 5 minutes
\* with A in its exclusion list.
C29_CandidateDoesNotExcludeCaller ==
    (resp.op = "poll" /\ resp.code = 200 /\ resp.kind = "call")
    => \A i \in DOMAIN msessions :
          /\ msessions[i].user = resp.partner
          /\ msessions[i].status = "active"
          /\ msessions[i].last_active >= now - SessionTimeout
          => ~InSeq(resp.user, msessions[i].excl)

\* The open call sessions between a and b created within the last 10
\* minutes, in either participant order.
RecentOpenCalls(cs, a, b) ==
    {c \in DOMAIN cs :
        /\ {cs[c].user1, cs[c].user2} = {a, b}
        /\ cs[c].status \in {"waiting", "active"}
        /\ cs[c].created_at >= now - RecentCallWindow}

\* C30: a poll by A that selects B while a call session between A and B,
\* waiting or active and created within the last 10 minutes, exists returns
\* such a call session and creates neither a call session nor a video
\* session.  The moment of selection follows the cleanup of stale call
\* sessions the poll starts with: the call sessions are those the cleanup
\* left waiting or active.
C30_RecentCallReused ==
    [][/\ resp'.op = "poll"
       /\ resp'.code = 200
       /\ resp'.kind = "call"
       /\ RecentOpenCalls(PolledCalls, resp'.user, resp'.partner) # {}
       => /\ resp'.id \in RecentOpenCalls(PolledCalls, resp'.user, resp'.partner)
          /\ resp'.sid = calls[resp'.id].session_id
          /\ calls'[resp'.id].status = calls[resp'.id].status
          /\ Len(calls') = Len(calls)
          /\ Len(videos') = Len(videos)
          /\ next_uuid' = next_uuid]_vars

\* A poll returned a call session that the poll of the other participant
\* had created five minutes or more before.
C30_Witness ==
    /\ resp.op = "poll"
    /\ resp.code = 200
    /\ resp.kind = "call"
    /\ Len(calls) = 1
    /\ calls[resp.id].created_by = resp.partner
    /\ calls[resp.id].user2 = resp.user
    /\ calls[resp.id].created_at < now

\* C31: the cleanup a poll starts with cancels a waiting or active call
\* session older than the staleness window, and its video session with it,
\* exactly when a participant holds no active MatchingSession touched within
\* that window; every other call session keeps its status, and a second run
\* of the cleanup changes nothing.
C31_CleanupCancelsCallAndVideo ==
    [][resp'.op = "poll" /\ resp'.code = 200 =>
        /\ \A c \in DOMAIN calls :
              IF /\ calls[c].status \in {"waiting", "active"}
                 /\ calls[c].created_at <= now - StaleCallCutoff
                 /\ \E p \in {calls[c].user1, calls[c].user2} :
                       \A i \in DOMAIN msessions :
                          ~(/\ msessions[i].user = p
                            /\ msessions[i].status = "active"
                            /\ msessions[i].last_active >= now - StaleCallCutoff)
              THEN /\ calls'[c].status = "cancelled"
                   /\ \A v \in DOMAIN videos' :
                         videos'[v].session_id = calls[c].session_id
                         => videos'[v].status = "cancelled"
              ELSE calls'[c].status = calls[c].status
        /\ cleanup_stale_call_sessions(PolledCalls, msessions) = PolledCalls]_vars

\* C32: in every reachable state each call session has exactly one video
\* session with the same session id.
C32_CallHasOneVideo ==
    \A c \in DOMAIN calls :
        Cardinality({v \in DOMAIN videos :
                        /\ ~videos[v].deleted
                        /\ videos[v].session_id = calls[c].session_id}) = 1

\* C33: a step that completes a video session deletes only completed video
\* sessions bound to the same Match as the completed one, and keeps the
\* three most recent of them; a video session of an instant call, which has
\* no Match, is never deleted.
C33_RetentionWithinOneMatch ==
    [][\A v \in DOMAIN videos :
          ~videos[v].deleted /\ videos'[v].deleted
          => /\ videos[v].status = "completed"
             /\ videos[v].match_id # 0
             /\ \E w \in DOMAIN videos :
                   /\ videos[w].status # "completed"
                   /\ videos'[w].status = "completed"
                   /\ videos[w].match_id = videos[v].match_id
             /\ Cardinality({j \in DOMAIN videos' :
                               /\ j > v
                               /\ ~videos'[j].deleted
                               /\ videos'[j].status = "completed"
                               /\ videos'[j].match_id = videos[v].match_id})
                    >= KeptCompleted]_vars

\* C34: once a video session is completed, its signalling mailbox is absent
\* or empty in every later state.
C34_NoMailAfterCompletion ==
    \A v \in DOMAIN videos :
        videos[v].status = "completed"
        => \/ videos[v].session_id \notin DOMAIN webrtc_signals
           \/ webrtc_signals[videos[v].session_id] = <<>>

C36_CallIdNeverHitsMatch ==
    [][resp'.op \in {"continue", "next", "skip"} /\ resp'.code = 200 =>
        \A m \in DOMAIN matches :
            (m \in DOMAIN calls
                /\ resp'.user \in {calls[m].user1, calls[m].user2})
            => matches'[m].status = matches[m].status]_vars

\* C37: once a MatchingSession is completed, its exclusion list, its
\* matches_made and its successful_matches never change.
C37_CompletedSessionFrozen ==
    [][\A i \in DOMAIN msessions :
          msessions[i].status = "completed"
          => /\ msessions'[i].excl = msessions[i].excl
             /\ msessions'[i].matches_made = msessions[i].matches_made
             /\ msessions'[i].successful_matches
                   = msessions[i].successful_matches]_vars

\* C38: the video session of an instant call does not become active, and
\* no auto-end timer is scheduled for it, while its call session is
\* cancelled or completed.
C38_NoStartOnClosedCall ==
    [][\A v \in DOMAIN videos :
          /\ videos[v].match_id = 0
          /\ \/ videos[v].status # "active" /\ videos'[v].status = "active"
             \/ videos[v].session_id \in timers' \ timers
          => \A c \in DOMAIN calls :
                calls[c].session_id = videos[v].session_id
                => calls[c].status \notin {"cancelled", "completed"}]_vars

\* C39: ended_at of a video session is written at most once, and an
\* auto-end task that runs when its session is no longer active (ended by
\* a participant, or cancelled) changes no video session, no Match, no
\* mailbox and no connected-users entry.
C39_EndedAtMostOnce ==
    /\ [](\A v \in DOMAIN videos : videos[v].ended <= 1)
    /\ [][\A sid \in timers \ timers' :
            (VideoOf(sid) = 0 \/ videos[VideoOf(sid)].status # "active")
            => UNCHANGED <<videos, matches, webrtc_signals,
                           connected_users>>]_vars

\* The auto-end task of a session that had been started and then cancelled
\* has run.
C39_Witness ==
    /\ resp = NoResponse
    /\ \E v \in DOMAIN videos :
          /\ videos[v].status = "cancelled"
          /\ videos[v].started = 1
          /\ videos[v].ended = 0
          /\ videos[v].session_id \notin timers

\* C40: when users 1 and 2 are the only users in the pool, neither excludes
\* the other, each passes the other's age filter and score threshold, and
\* both keep polling, the poll of one returns, again and again, the call
\* session that the poll of the other created and returned: both polls
\* return the same video session id, and the two never end up each waiting
\* in a call session of its own.
C40_PollsMeet ==
    []<>(/\ resp.op = "poll"
         /\ resp.code = 200
         /\ resp.kind = "call"
         /\ calls[resp.id].created_by = resp.partner
         /\ calls[resp.id].session_id = resp.sid
         /\ calls[resp.id].status = "waiting")

\* After the first call session of the pair has left the 10-minute window,
\* the poll of one user has created a second one and the poll of the other
\* has returned it.
C40_Witness ==
    /\ resp.op = "poll"
    /\ resp.code = 200
    /\ resp.kind = "call"
    /\ resp.id = 2
    /\ calls[resp.id].created_by = resp.partner
    /\ calls[1].status = "waiting"

====
